---- MODULE Spec2Model ----
(***************************************************************************)
(* Lifecycle manager (src/src/lifecycle.ts): ordered start-up and          *)
(* shut-down of registered components, with a background health-check      *)
(* loop.  Every start() call, health loop and close() call is a task; a    *)
(* task runs atomically from one await to the next, and tasks interleave   *)
(* only at awaits.  The return of an async method (#startComponent,         *)
(* #closeComponent, #restartComponent, a child's start()/close(),          *)
(* startChildComponents, closeChildComponents) and the resumption of the   *)
(* caller that awaits it are two steps: the caller resumes in a later      *)
(* microtask, and other calls can run in between.                          *)
(*                                                                         *)
(* Spec is the supervisor under any calls of register(), start() and       *)
(* close(); SpecOnce is the supervisor on which start() is called at most  *)
(* once; SpecLive is SpecOnce without failing component operations, under  *)
(* fairness; SpecParent is the supervisor with a component that owns child *)
(* components (src/src/LifecycleComponent.ts).  A rejection nobody handles *)
(* (of the health loop, or of a close() made by SIGTERM) ends the task it  *)
(* occurs in; whether the host lets the process go on is not modelled,     *)
(* since a process that ends takes no further step.                        *)
(***************************************************************************)
EXTENDS Integers, Sequences, FiniteSets, TLC

\* ---------------------------------------------------------------- bounds
MaxComponents == 2
MaxStarts == 2
MaxCloses == 2
MaxCycles == 1
MaxChildren == 1

\* The components a caller may register.  Plain has no checkHealth, Checked
\* implements checkHealth, Restartable implements checkHealth and restart.
Components == {"Plain", "Checked", "Restartable"}
hasCheckHealth(c) == c \in {"Checked", "Restartable"}
hasRestart(c) == c = "Restartable"

statuses == <<"pending", "starting", "running", "closing", "closed">>

StartIds == 1..MaxStarts
CloseIds == 1..MaxCloses

VARIABLES
  status,          \* #status
  components,      \* #components
  healthResolved,  \* #healthCheckPromise has been resolved
  sigterm,         \* this.close is a listener of SIGTERM
  exited,          \* Deno.exit(0) was called
  starts,          \* the start() calls: [pc, i]
  health,          \* the health loop spawned by each start() call: [pc, i, cycle]
  closes,          \* the close() calls: [pc, i, shouldExit]
  registerResult,  \* how the last register() call ended
  log,             \* per task, what it did, in order
  parent           \* the ParentComponent: [children, pc, i, snapshot, events]

\* the state of the Lifecycle and of its calls
supervisor == <<status, components, healthResolved, sigterm, exited, starts,
                health, closes, registerResult, log>>

vars == <<status, components, healthResolved, sigterm, exited, starts, health,
          closes, registerResult, log, parent>>

\* ------------------------------------------------------------ log entries
\* Each task (a start() call, the health loop it spawned, a close() call) has
\* its own log; the log of a health loop
\* holds its current cycle, from the delay to the while test.  k: "emit" (an event of the emitter), "call"/"ret" (a component
\* operation or delay is invoked / the task resumes from awaiting it),
\* "resolve" (#healthCheckPromise.resolve()), "exit" (Deno.exit).  p is the
\* iteration of the task's loop, c the component, r the result.
Entry(k, n, p, c, r) == [k |-> k, n |-> n, p |-> p, c |-> c, r |-> r]
Emit(n) == Entry("emit", n, 0, "-", "-")
EmitC(n, p, c) == Entry("emit", n, p, c, "-")
Call(op, p, c) == Entry("call", op, p, c, "-")
Ret(op, p, c, r) == Entry("ret", op, p, c, r)

StartTask(s) == <<"start", s>>
HealthTask(s) == <<"health", s>>
CloseTask(k) == <<"close", k>>
Tasks == {StartTask(s) : s \in StartIds} \cup {HealthTask(s) : s \in StartIds}
           \cup {CloseTask(k) : k \in CloseIds}

\* l with the entries es added to the log of task t
logTo(l, t, es) == [l EXCEPT ![t] = @ \o es]

\* ------------------------------------------------------------ pure pieces
RECURSIVE toReversed(_)
toReversed(s) == IF s = <<>> THEN <<>> ELSE Append(toReversed(Tail(s)), Head(s))

\* register(): the guard
registerAllowedWhileStarting(st) == st \in {"pending", "starting"}
registerAllowed(st) == st = "pending"

\* close(): which of its three branches is taken
closeBranchNoCoalesce(st) ==
  IF st \in {"running", "closing"} THEN "run" ELSE "throw"
closeBranchNoGuard(st) ==
  IF st = "closing" THEN "coalesce" ELSE "run"
closeBranchRunsWhileStarting(st) ==
  IF st = "closing" THEN "coalesce"
  ELSE IF st \notin {"running", "starting"} THEN "throw"
  ELSE "run"
closeBranch(st) ==
  IF st = "closing" THEN "coalesce"
  ELSE IF st # "running" THEN "throw"
  ELSE "run"

\* start(): the order in which the components are started
startOrderReversed(comps) == toReversed(comps)
startOrder(comps) == comps

\* close(): the order in which the components are closed
closeOrderForward(comps) == comps
closeOrder(comps) == toReversed(comps)

\* #checkComponentHealth: what checkHealth?.() can settle with.  A component
\* without checkHealth yields undefined.
checkOutcomes(c) ==
  IF hasCheckHealth(c) THEN {"true", "false", "reject"} ELSE {"undefined"}

\* #checkComponentHealth: (await component.checkHealth?.() ?? true) === false
needsRestartAlways(r) == r \in {"false", "true"}
needsRestartUnlessTrue(r) == r # "true"
needsRestart(r) == r = "false"

\* #restartComponent: the operation invoked to recover a component
recoveryOp(c) == "start"

\* the health loop's while condition
loopContinuesUntilClosed(st) == st # "closed"
loopContinuesNever(st) == FALSE
loopContinues(st) == st = "running"

\* #setStatus(v): the event emitted (the status itself is set by the action)
setStatusTwice(l, v, t) == logTo(l, t, <<Emit(v), Emit(v)>>)
setStatus(l, v, t) == logTo(l, t, <<Emit(v)>>)

\* ------------------------------------------------------------------- Init
Init ==
  /\ status = "pending"
  /\ components = <<>>
  /\ healthResolved = FALSE
  /\ sigterm = FALSE
  /\ exited = FALSE
  /\ starts = [s \in StartIds |-> [pc |-> "idle", i |-> 0]]
  /\ health = [s \in StartIds |-> [pc |-> "none", i |-> 0, cycle |-> 0]]
  /\ closes = [k \in CloseIds |-> [pc |-> "idle", i |-> 0, shouldExit |-> FALSE]]
  /\ registerResult = "none"
  /\ log = [t \in Tasks |-> <<>>]
  /\ parent = [children |-> <<>>, pc |-> "idle", i |-> 0, snapshot |-> <<>>,
               events |-> <<>>]

\* --------------------------------------------------------------- register
register(c) ==
  /\ ~exited
  /\ IF registerAllowed(status)
       THEN /\ Len(components) < MaxComponents
            /\ components' = Append(components, c)
            /\ registerResult' = "ok"
       ELSE /\ components' = components
            /\ registerResult' = "error"
  /\ UNCHANGED <<status, healthResolved, sigterm, exited, starts, health, closes, log>>

\* ------------------------------------------------------------------ start
\* The health loop up to its first await: do { await delay(...)
spawnHealthSkipsDelay(s) ==
  [health EXCEPT ![s] = [pc |-> "checked", i |-> 0, cycle |-> 1]]
spawnHealth(s) ==
  [health EXCEPT ![s] = [pc |-> "delay", i |-> 0, cycle |-> 1]]

\* The for loop of start() from its i-th iteration, run up to the next await,
\* with st the status and l the log at that point.  After the last component:
\* addSignalListener, the health loop is spawned and runs up to its delay,
\* #setStatus('running').
startLoop(s, st, l, i) ==
  LET order == startOrder(components) IN
  IF i <= Len(order)
    THEN /\ starts' = [starts EXCEPT ![s] = [pc |-> "awaitStart", i |-> i]]
         /\ status' = st
         /\ log' = logTo(l, StartTask(s), <<Call("start", i, order[i])>>)
         /\ UNCHANGED <<sigterm, health>>
    ELSE /\ starts' = [starts EXCEPT ![s] = [pc |-> "done", i |-> i]]
         /\ sigterm' = TRUE
         /\ health' = spawnHealth(s)
         /\ status' = "running"
         /\ log' = setStatus(logTo(l, HealthTask(s), <<Call("delay", 0, "-")>>),
                             "running", StartTask(s))

\* start() is called: #setStatus('starting'), then the loop up to its first await.
\* start() has no guard on the status.
start(s) ==
  /\ ~exited
  /\ starts[s].pc = "idle"
  /\ \A j \in StartIds : j < s => starts[j].pc # "idle"
  /\ startLoop(s, "starting", setStatus(log, "starting", StartTask(s)), 1)
  /\ UNCHANGED <<components, healthResolved, exited, closes, registerResult>>

\* #startComponent resumes from await component.start().  Fulfilled: the event
\* is emitted and #startComponent returns; start(), which awaits it, resumes in
\* a later step.  Rejected: the rejection propagates out of start().
startComponentSwallowsFailure(s, ok) ==
  /\ ~exited
  /\ starts[s].pc = "awaitStart"
  /\ LET i == starts[s].i
         c == startOrder(components)[i]
         t == StartTask(s)
     IN /\ starts' = [starts EXCEPT ![s].pc = "started"]
        /\ log' = logTo(log, t, <<Ret("start", i, c, IF ok THEN "ok" ELSE "fail"),
                                   EmitC("componentStarted", i, c)>>)
  /\ UNCHANGED <<status, sigterm, health>>
  /\ UNCHANGED <<components, healthResolved, exited, closes, registerResult>>
startComponentResumes(s, ok) ==
  /\ ~exited
  /\ starts[s].pc = "awaitStart"
  /\ LET i == starts[s].i
         c == startOrder(components)[i]
         t == StartTask(s)
     IN IF ok
          THEN /\ starts' = [starts EXCEPT ![s].pc = "started"]
               /\ log' = logTo(log, t, <<Ret("start", i, c, "ok"),
                                          EmitC("componentStarted", i, c)>>)
          ELSE /\ starts' = [starts EXCEPT ![s].pc = "failed"]
               /\ log' = logTo(log, t, <<Ret("start", i, c, "fail")>>)
  /\ UNCHANGED <<status, sigterm, health>>
  /\ UNCHANGED <<components, healthResolved, exited, closes, registerResult>>

\* start() resumes from await this.#startComponent(component): its next
\* iteration, or what follows the loop.
startResumes(s) ==
  /\ ~exited
  /\ starts[s].pc = "started"
  /\ startLoop(s, status, log, starts[s].i + 1)
  /\ UNCHANGED <<components, healthResolved, exited, closes, registerResult>>

\* ------------------------------------------------------------ health loop
\* The for loop of #checkComponentHealth from its i-th iteration, run up to the
\* next await; after the last component 'healthChecked' is emitted.  A component
\* without checkHealth is not called, but await undefined still suspends.
checkLoopEmitsEach(h, l, i) ==
  IF i <= Len(components)
    THEN /\ health' = [health EXCEPT ![h].pc = "awaitCheck", ![h].i = i]
         /\ log' = logTo(IF hasCheckHealth(components[i])
                           THEN logTo(l, HealthTask(h),
                                      <<Call("checkHealth", i, components[i])>>)
                           ELSE l,
                         HealthTask(h), <<Emit("healthChecked")>>)
    ELSE /\ health' = [health EXCEPT ![h].pc = "checked", ![h].i = i]
         /\ log' = logTo(l, HealthTask(h), <<Emit("healthChecked")>>)
checkLoop(h, l, i) ==
  IF i <= Len(components)
    THEN /\ health' = [health EXCEPT ![h].pc = "awaitCheck", ![h].i = i]
         /\ log' = IF hasCheckHealth(components[i])
                     THEN logTo(l, HealthTask(h),
                                <<Call("checkHealth", i, components[i])>>)
                     ELSE l
    ELSE /\ health' = [health EXCEPT ![h].pc = "checked", ![h].i = i]
         /\ log' = logTo(l, HealthTask(h), <<Emit("healthChecked")>>)

\* await delay(this.#healthCheckInterval) is over: #checkComponentHealth begins.
\* While the status is running the number of cycles is bounded by MaxCycles.
healthDelayElapsedTestsFirst(h) ==
  /\ ~exited
  /\ health[h].pc = "delay"
  /\ health[h].cycle <= MaxCycles \/ status # "running"
  /\ IF loopContinues(status)
       THEN /\ checkLoop(h, logTo(log, HealthTask(h), <<Ret("delay", 0, "-", "ok")>>), 1)
            /\ UNCHANGED healthResolved
       ELSE /\ health' = [health EXCEPT ![h].pc = "done", ![h].i = 0]
            /\ healthResolved' = TRUE
            /\ log' = [log EXCEPT ![HealthTask(h)] = <<>>]
  /\ UNCHANGED <<status, components, sigterm, exited, starts, closes, registerResult>>
healthDelayElapsed(h) ==
  /\ ~exited
  /\ health[h].pc = "delay"
  /\ health[h].cycle <= MaxCycles \/ status # "running"
  /\ checkLoop(h, logTo(log, HealthTask(h), <<Ret("delay", 0, "-", "ok")>>), 1)
  /\ UNCHANGED <<status, components, healthResolved, sigterm, exited, starts,
                 closes, registerResult>>

\* #checkComponentHealth resumes from await component.checkHealth?.() with r.
\* false: #restartComponent runs up to its await.  A rejection ends the loop.
healthCheckResumesNoAwait(h, r) ==
  /\ ~exited
  /\ health[h].pc = "awaitCheck"
  /\ LET i == health[h].i
         c == components[i]
         t == HealthTask(h)
         l == IF hasCheckHealth(c)
                THEN logTo(log, t, <<Ret("checkHealth", i, c, r)>>)
                ELSE log
     IN /\ r \in checkOutcomes(c)
        /\ IF r = "reject"
             THEN /\ health' = [health EXCEPT ![h].pc = "dead"]
                  /\ log' = l
             ELSE IF needsRestart(r)
               THEN checkLoop(h, logTo(l, t, <<EmitC("componentRestarting", i, c),
                                              Call(recoveryOp(c), i, c)>>),
                              i + 1)
               ELSE checkLoop(h, l, i + 1)
  /\ UNCHANGED <<status, components, healthResolved, sigterm, exited, starts,
                 closes, registerResult>>
healthCheckResumesResolvesOnReject(h, r) ==
  /\ ~exited
  /\ health[h].pc = "awaitCheck"
  /\ LET i == health[h].i
         c == components[i]
         t == HealthTask(h)
         l == IF hasCheckHealth(c)
                THEN logTo(log, t, <<Ret("checkHealth", i, c, r)>>)
                ELSE log
     IN /\ r \in checkOutcomes(c)
        /\ IF r = "reject"
             THEN /\ health' = [health EXCEPT ![h].pc = "dead"]
                  /\ healthResolved' = TRUE
                  /\ log' = l
             ELSE /\ UNCHANGED healthResolved
                  /\ IF needsRestart(r)
                       THEN /\ health' = [health EXCEPT ![h].pc = "awaitRestart"]
                            /\ log' = logTo(l, t, <<EmitC("componentRestarting", i, c),
                                                     Call(recoveryOp(c), i, c)>>)
                       ELSE checkLoop(h, l, i + 1)
  /\ UNCHANGED <<status, components, sigterm, exited, starts, closes, registerResult>>
healthCheckResumes(h, r) ==
  /\ ~exited
  /\ health[h].pc = "awaitCheck"
  /\ LET i == health[h].i
         c == components[i]
         t == HealthTask(h)
         l == IF hasCheckHealth(c)
                THEN logTo(log, t, <<Ret("checkHealth", i, c, r)>>)
                ELSE log
     IN /\ r \in checkOutcomes(c)
        /\ IF r = "reject"
             THEN /\ health' = [health EXCEPT ![h].pc = "dead"]
                  /\ log' = l
             ELSE IF needsRestart(r)
               THEN /\ health' = [health EXCEPT ![h].pc = "awaitRestart"]
                    /\ log' = logTo(l, t, <<EmitC("componentRestarting", i, c),
                                             Call(recoveryOp(c), i, c)>>)
               ELSE checkLoop(h, l, i + 1)
  /\ UNCHANGED <<status, components, healthResolved, sigterm, exited, starts,
                 closes, registerResult>>

\* #restartComponent resumes from its await.  Fulfilled: the event is emitted
\* and #restartComponent returns; #checkComponentHealth, which awaits it,
\* resumes in a later step.  A rejection ends the loop.
healthRestartResumes(h, ok) ==
  /\ ~exited
  /\ health[h].pc = "awaitRestart"
  /\ LET i == health[h].i
         c == components[i]
         t == HealthTask(h)
     IN IF ok
          THEN /\ health' = [health EXCEPT ![h].pc = "restarted"]
               /\ log' = logTo(log, t, <<Ret(recoveryOp(c), i, c, "ok"),
                                          EmitC("componentRestarted", i, c)>>)
          ELSE /\ health' = [health EXCEPT ![h].pc = "dead"]
               /\ log' = logTo(log, t, <<Ret(recoveryOp(c), i, c, "fail")>>)
  /\ UNCHANGED <<status, components, healthResolved, sigterm, exited, starts,
                 closes, registerResult>>

\* #checkComponentHealth resumes from await this.#restartComponent(component):
\* its next iteration, or the healthChecked event.
checkComponentHealthResumes(h) ==
  /\ ~exited
  /\ health[h].pc = "restarted"
  /\ checkLoop(h, log, health[h].i + 1)
  /\ UNCHANGED <<status, components, healthResolved, sigterm, exited, starts,
                 closes, registerResult>>

\* The loop resumes from await this.#checkComponentHealth(): the while test,
\* then either the next delay or #healthCheckPromise.resolve().
healthLoopTestForgetsResolve(h) ==
  /\ ~exited
  /\ health[h].pc = "checked"
  /\ IF loopContinues(status)
       THEN /\ health' = [health EXCEPT ![h].pc = "delay", ![h].i = 0,
                                        ![h].cycle = health[h].cycle + 1]
            /\ log' = [log EXCEPT ![HealthTask(h)] = <<Call("delay", 0, "-")>>]
       ELSE /\ health' = [health EXCEPT ![h].pc = "done", ![h].i = 0]
            /\ log' = [log EXCEPT ![HealthTask(h)] = <<>>]
  /\ UNCHANGED <<status, components, healthResolved, sigterm, exited, starts,
                 closes, registerResult>>
healthLoopTest(h) ==
  /\ ~exited
  /\ health[h].pc = "checked"
  /\ IF loopContinues(status)
       THEN /\ health' = [health EXCEPT ![h].pc = "delay", ![h].i = 0,
                                        ![h].cycle = health[h].cycle + 1]
            /\ log' = [log EXCEPT ![HealthTask(h)] = <<Call("delay", 0, "-")>>]
            /\ UNCHANGED healthResolved
       ELSE /\ health' = [health EXCEPT ![h].pc = "done", ![h].i = 0]
            /\ healthResolved' = TRUE
            /\ log' = [log EXCEPT ![HealthTask(h)] =
                         <<Entry("resolve", "healthCheckPromise", 0, "-",
                                 IF healthResolved THEN "noop" ELSE "ok")>>]
  /\ UNCHANGED <<status, components, sigterm, exited, starts, closes, registerResult>>

\* ------------------------------------------------------------------ close
\* The close() calls waiting for the 'closed' event resolve when it is emitted.
resolveWaiting(cl) ==
  [k \in CloseIds |-> IF cl[k].pc = "coalesced" THEN [cl[k] EXCEPT !.pc = "resolved"]
                                                 ELSE cl[k]]

\* The for loop of close() from its i-th iteration, run up to the next await.
\* After the last component: #setStatus('closed'), shouldExit && Deno.exit(0).
closeLoopAlwaysExits(k, l, i) ==
  LET order == closeOrder(components)
      t == CloseTask(k)
  IN IF i <= Len(order)
       THEN /\ closes' = [closes EXCEPT ![k].pc = "awaitClose", ![k].i = i]
            /\ log' = logTo(l, t, <<EmitC("componentClosing", i, order[i]),
                                     Call("close", i, order[i])>>)
            /\ UNCHANGED <<status, exited>>
       ELSE /\ closes' = [resolveWaiting(closes) EXCEPT ![k].pc = "done", ![k].i = i]
            /\ status' = "closed"
            /\ exited' = TRUE
            /\ log' = logTo(setStatus(l, "closed", t), t,
                             <<Entry("exit", "exit", 0, "-", "-")>>)
closeLoop(k, l, i) ==
  LET order == closeOrder(components)
      t == CloseTask(k)
  IN IF i <= Len(order)
       THEN /\ closes' = [closes EXCEPT ![k].pc = "awaitClose", ![k].i = i]
            /\ log' = logTo(l, t, <<EmitC("componentClosing", i, order[i]),
                                     Call("close", i, order[i])>>)
            /\ UNCHANGED <<status, exited>>
       ELSE /\ closes' = [resolveWaiting(closes) EXCEPT ![k].pc = "done", ![k].i = i]
            /\ status' = "closed"
            /\ exited' = closes[k].shouldExit
            /\ log' = logTo(setStatus(l, "closed", t), t,
                             IF closes[k].shouldExit
                               THEN <<Entry("exit", "exit", 0, "-", "-")>>
                               ELSE <<>>)

\* close(shouldExit) is called.  Only the branch that runs the shutdown reads
\* shouldExit, so only that branch keeps it.
closeKeepsListener(k, shouldExit) ==
  /\ ~exited
  /\ closes[k].pc = "idle"
  /\ \A j \in CloseIds : j < k => closes[j].pc # "idle"
  /\ LET b == closeBranch(status)
     IN CASE b = "coalesce" ->
               /\ closes' = [closes EXCEPT ![k].pc = "coalesced"]
               /\ UNCHANGED <<status, sigterm, log>>
          [] b = "throw" ->
               /\ closes' = [closes EXCEPT ![k].pc = "rejected"]
               /\ UNCHANGED <<status, sigterm, log>>
          [] b = "run" ->
               /\ closes' = [closes EXCEPT ![k].pc = "awaitHealth",
                                           ![k].shouldExit = shouldExit]
               /\ sigterm' = sigterm
               /\ status' = "closing"
               /\ log' = setStatus(log, "closing", CloseTask(k))
  /\ UNCHANGED <<components, healthResolved, exited, starts, health, registerResult>>
close(k, shouldExit) ==
  /\ ~exited
  /\ closes[k].pc = "idle"
  /\ \A j \in CloseIds : j < k => closes[j].pc # "idle"
  /\ LET b == closeBranch(status)
     IN CASE b = "coalesce" ->
               /\ closes' = [closes EXCEPT ![k].pc = "coalesced"]
               /\ UNCHANGED <<status, sigterm, log>>
          [] b = "throw" ->
               /\ closes' = [closes EXCEPT ![k].pc = "rejected"]
               /\ UNCHANGED <<status, sigterm, log>>
          [] b = "run" ->
               /\ closes' = [closes EXCEPT ![k].pc = "awaitHealth",
                                           ![k].shouldExit = shouldExit]
               /\ sigterm' = FALSE
               /\ status' = "closing"
               /\ log' = setStatus(log, "closing", CloseTask(k))
  /\ UNCHANGED <<components, healthResolved, exited, starts, health, registerResult>>

\* SIGTERM arrives while this.close is its listener: close() is called without
\* an argument, so shouldExit takes its default.
sigtermReceived(k) ==
  /\ sigterm
  /\ close(k, TRUE)

\* close() resumes from await this.#healthCheckPromise.promise.
closeWithoutWaiting(k) ==
  /\ ~exited
  /\ closes[k].pc = "awaitHealth"
  /\ closeLoop(k, log, 1)
  /\ UNCHANGED <<components, healthResolved, sigterm, starts, health, registerResult>>
closeWhenLoopIdle(k) ==
  /\ ~exited
  /\ closes[k].pc = "awaitHealth"
  /\ healthResolved \/ \A h \in StartIds : health[h].pc \in {"none", "delay", "done"}
  /\ closeLoop(k, log, 1)
  /\ UNCHANGED <<components, healthResolved, sigterm, starts, health, registerResult>>
closeHealthStopped(k) ==
  /\ ~exited
  /\ closes[k].pc = "awaitHealth"
  /\ healthResolved
  /\ closeLoop(k, log, 1)
  /\ UNCHANGED <<components, healthResolved, sigterm, starts, health, registerResult>>

\* #closeComponent resumes from await component.close().  Fulfilled: the event
\* is emitted and #closeComponent returns; close(), which awaits it, resumes in
\* a later step.  Rejected: the rejection propagates out of close().
closeComponentSwallowsFailure(k, ok) ==
  /\ ~exited
  /\ closes[k].pc = "awaitClose"
  /\ LET i == closes[k].i
         c == closeOrder(components)[i]
         t == CloseTask(k)
     IN /\ closes' = [closes EXCEPT ![k].pc = "componentClosed"]
        /\ log' = logTo(log, t, <<Ret("close", i, c, IF ok THEN "ok" ELSE "fail"),
                                   EmitC("componentClosed", i, c)>>)
  /\ UNCHANGED <<status, exited>>
  /\ UNCHANGED <<components, healthResolved, sigterm, starts, health, registerResult>>
closeComponentReleasesWaitersOnFailure(k, ok) ==
  /\ ~exited
  /\ closes[k].pc = "awaitClose"
  /\ LET i == closes[k].i
         c == closeOrder(components)[i]
         t == CloseTask(k)
     IN IF ok
          THEN /\ closes' = [closes EXCEPT ![k].pc = "componentClosed"]
               /\ log' = logTo(log, t, <<Ret("close", i, c, "ok"),
                                          EmitC("componentClosed", i, c)>>)
          ELSE /\ closes' = [resolveWaiting(closes) EXCEPT ![k].pc = "failed"]
               /\ log' = logTo(log, t, <<Ret("close", i, c, "fail")>>)
  /\ UNCHANGED <<status, exited>>
  /\ UNCHANGED <<components, healthResolved, sigterm, starts, health, registerResult>>
closeComponentResumes(k, ok) ==
  /\ ~exited
  /\ closes[k].pc = "awaitClose"
  /\ LET i == closes[k].i
         c == closeOrder(components)[i]
         t == CloseTask(k)
     IN IF ok
          THEN /\ closes' = [closes EXCEPT ![k].pc = "componentClosed"]
               /\ log' = logTo(log, t, <<Ret("close", i, c, "ok"),
                                          EmitC("componentClosed", i, c)>>)
          ELSE /\ closes' = [closes EXCEPT ![k].pc = "failed"]
               /\ log' = logTo(log, t, <<Ret("close", i, c, "fail")>>)
  /\ UNCHANGED <<status, exited>>
  /\ UNCHANGED <<components, healthResolved, sigterm, starts, health, registerResult>>

\* close() resumes from await this.#closeComponent(component): its next
\* iteration, or what follows the loop.
closeResumes(k) ==
  /\ ~exited
  /\ closes[k].pc = "componentClosed"
  /\ closeLoop(k, log, closes[k].i + 1)
  /\ UNCHANGED <<components, healthResolved, sigterm, starts, health, registerResult>>

\* ------------------------------------------------------------------- Next
\* The supervisor with components whose operations are settled by their
\* environment; the ParentComponent takes no part.
Next ==
  \/ \E c \in Components : register(c) /\ UNCHANGED parent
  \/ \E s \in StartIds : start(s) /\ UNCHANGED parent
  \/ \E s \in StartIds, ok \in BOOLEAN : startComponentResumes(s, ok) /\ UNCHANGED parent
  \/ \E s \in StartIds : startResumes(s) /\ UNCHANGED parent
  \/ \E h \in StartIds : healthDelayElapsed(h) /\ UNCHANGED parent
  \/ \E h \in StartIds, r \in {"true", "false", "reject", "undefined"} :
       healthCheckResumes(h, r) /\ UNCHANGED parent
  \/ \E h \in StartIds, ok \in BOOLEAN : healthRestartResumes(h, ok) /\ UNCHANGED parent
  \/ \E h \in StartIds : checkComponentHealthResumes(h) /\ UNCHANGED parent
  \/ \E h \in StartIds : healthLoopTest(h) /\ UNCHANGED parent
  \/ \E k \in CloseIds, shouldExit \in BOOLEAN : close(k, shouldExit) /\ UNCHANGED parent
  \/ \E k \in CloseIds : sigtermReceived(k) /\ UNCHANGED parent
  \/ \E k \in CloseIds : closeHealthStopped(k) /\ UNCHANGED parent
  \/ \E k \in CloseIds, ok \in BOOLEAN : closeComponentResumes(k, ok) /\ UNCHANGED parent
  \/ \E k \in CloseIds : closeResumes(k) /\ UNCHANGED parent

Spec == Init /\ [][Next]_vars

\* The supervisor used as documented: start() is called at most once.
NextOnce ==
  \/ \E c \in Components : register(c) /\ UNCHANGED parent
  \/ start(1) /\ UNCHANGED parent
  \/ \E ok \in BOOLEAN : startComponentResumes(1, ok) /\ UNCHANGED parent
  \/ startResumes(1) /\ UNCHANGED parent
  \/ healthDelayElapsed(1) /\ UNCHANGED parent
  \/ \E r \in {"true", "false", "reject", "undefined"} : healthCheckResumes(1, r) /\ UNCHANGED parent
  \/ \E ok \in BOOLEAN : healthRestartResumes(1, ok) /\ UNCHANGED parent
  \/ checkComponentHealthResumes(1) /\ UNCHANGED parent
  \/ healthLoopTest(1) /\ UNCHANGED parent
  \/ \E k \in CloseIds, shouldExit \in BOOLEAN : close(k, shouldExit) /\ UNCHANGED parent
  \/ \E k \in CloseIds : sigtermReceived(k) /\ UNCHANGED parent
  \/ \E k \in CloseIds : closeHealthStopped(k) /\ UNCHANGED parent
  \/ \E k \in CloseIds, ok \in BOOLEAN : closeComponentResumes(k, ok) /\ UNCHANGED parent
  \/ \E k \in CloseIds : closeResumes(k) /\ UNCHANGED parent

SpecOnce == Init /\ [][NextOnce]_vars

\* The supervisor started once, with no component operation failing, under
\* fairness: a timer that was set fires, a component operation that was invoked
\* settles, and a task whose awaited promise has settled is resumed.
healthLoopRuns ==
  /\ \/ healthDelayElapsed(1)
     \/ \E r \in {"true", "false", "undefined"} : healthCheckResumes(1, r)
     \/ healthRestartResumes(1, TRUE)
     \/ checkComponentHealthResumes(1)
     \/ healthLoopTest(1)
  /\ UNCHANGED parent

closeRuns ==
  /\ \E k \in CloseIds : \/ closeHealthStopped(k)
                          \/ closeComponentResumes(k, TRUE)
                          \/ closeResumes(k)
  /\ UNCHANGED parent

NextLive ==
  \/ \E c \in Components : register(c) /\ UNCHANGED parent
  \/ start(1) /\ UNCHANGED parent
  \/ startComponentResumes(1, TRUE) /\ UNCHANGED parent
  \/ startResumes(1) /\ UNCHANGED parent
  \/ healthLoopRuns
  \/ \E k \in CloseIds, shouldExit \in BOOLEAN : close(k, shouldExit) /\ UNCHANGED parent
  \/ \E k \in CloseIds : sigtermReceived(k) /\ UNCHANGED parent
  \/ closeRuns

SpecLive ==
  Init /\ [][NextLive]_vars /\ WF_vars(healthLoopRuns) /\ WF_vars(closeRuns)

\* ------------------------------------------------- a parent component
\* A component that owns child components (LifecycleComponent.ts), as the
\* ParentComponent of the child-component test: start() registers childOne and
\* childTwo and awaits startChildComponents(), close() awaits
\* closeChildComponents().  parent.events is the array the test records in:
\* what the parent and its children push, and what the listeners of
\* componentStarted and componentClosed push.
\* childThree stands for a child that something other than the parent's start()
\* registers.
Children == {"childOne", "childTwo", "childThree"}

Ev(e, c) == [e |-> e, c |-> c]

\* startChildComponents / closeChildComponents: the order of the children
startChildOrder(cs) == cs
closeChildOrderForward(cs) == cs
closeChildOrder(cs) == toReversed(cs)

\* The for loop of startChildComponents from its i-th iteration up to the next
\* await.  The loop iterates the live array, so it reads p.children each time.
\* A child's start() pushes its starting event and awaits its delay.  After the
\* last child startChildComponents returns; the parent's start(), which awaits
\* it, resumes in a later step.
startChildComponents(p, i) ==
  IF i <= Len(startChildOrder(p.children))
    THEN [p EXCEPT !.pc = "childStart", !.i = i,
                   !.events = Append(@, Ev("child.starting",
                                           startChildOrder(p.children)[i]))]
    ELSE [p EXCEPT !.pc = "childrenStarted", !.i = 0]

\* The for loop of closeChildComponents over its reversed copy, from its i-th
\* iteration up to the next await.  After the last child closeChildComponents
\* returns; the parent's close() resumes in a later step.
closeChildComponents(p, i) ==
  IF i <= Len(p.snapshot)
    THEN [p EXCEPT !.pc = "childClose", !.i = i,
                   !.events = Append(@, Ev("child.closing", p.snapshot[i]))]
    ELSE [p EXCEPT !.pc = "childrenClosed", !.i = 0]

\* parent.start() is called: it runs up to its first await
parentStartRegistersOnce(p) ==
  startChildComponents(
    [p EXCEPT !.events = Append(@, Ev("parent.starting", "-")),
              !.children = IF \E j \in 1..Len(@) : @[j] = "childOne"
                             THEN @ ELSE @ \o <<"childOne", "childTwo">>],
    1)
parentStart(p) ==
  startChildComponents(
    [p EXCEPT !.events = Append(@, Ev("parent.starting", "-")),
              !.children = @ \o <<"childOne", "childTwo">>],
    1)

\* parent.close() is called: it runs up to its first await
parentClose(p) ==
  LET q == [p EXCEPT !.events = Append(@, Ev("parent.closing", "-"))]
  IN closeChildComponents([q EXCEPT !.snapshot = closeChildOrder(q.children)], 1)

\* What the step of a start() or close() call added to the log of the call
added ==
  LET ts == {t \in Tasks : t[1] # "health" /\ log'[t] # log[t]}
  IN IF ts = {} THEN <<>>
     ELSE LET t == CHOOSE u \in ts : TRUE
          IN SubSeq(log'[t], Len(log[t]) + 1, Len(log'[t]))

\* lc.on('componentStarted', ...) and lc.on('componentClosed', ...): the events
\* the listeners push for what the supervisor emitted
listened(es) ==
  LET xs == SelectSeq(es, LAMBDA e : e.k = "emit"
                             /\ e.n \in {"componentStarted", "componentClosed"})
  IN [j \in 1..Len(xs) |-> Ev(xs[j].n, xs[j].c)]

\* The parent's side of a step of the supervisor, p being the parent at the
\* beginning of the step: the listeners run, and when the step ends by calling
\* start() or close() on the parent, that call runs up to its first await.
parentCalled(p) ==
  LET es == added
      q == [p EXCEPT !.events = @ \o listened(es)]
      last == IF es = <<>> THEN Emit("-") ELSE es[Len(es)]
  IN parent' = IF last.k = "call" /\ last.c = "Parent" /\ last.n = "start"
                 THEN parentStart(q)
               ELSE IF last.k = "call" /\ last.c = "Parent" /\ last.n = "close"
                 THEN parentClose(q)
               ELSE q

\* The promise the supervisor awaits settles with ok: for the parent this is
\* the end of its start() or close(), for any other component it is up to the
\* component.
settled(c, op, ok) ==
  c = "Parent" => parent.pc = op \o (IF ok THEN "End" ELSE "Failed")

returned(p) == [p EXCEPT !.pc = "idle"]

\* The number of times the parent's start() was entered; each time it
\* registered two children.
parentStarts(p) ==
  Cardinality({j \in 1..Len(p.events) : p.events[j] = Ev("parent.starting", "-")})

\* registerChildComponent(c) called from outside the parent's start(): no
\* guard, the child is appended.  MaxChildren bounds the number of these calls.
registerChildComponent(c) ==
  /\ ~exited
  /\ Len(parent.children) - 2 * parentStarts(parent) < MaxChildren
  /\ parent' = [parent EXCEPT !.children = Append(@, c)]
  /\ UNCHANGED supervisor

\* A child's start() resumes from its delay.  Fulfilled: it pushes its started
\* event and returns; startChildComponents, which awaits it, resumes in a later
\* step.  Rejected: the rejection propagates out of the parent's start().
childStartResumes(ok) ==
  /\ ~exited
  /\ parent.pc = "childStart"
  /\ parent' =
       IF ok
         THEN [parent EXCEPT !.pc = "childStarted",
                             !.events =
                 Append(@, Ev("child.started",
                              startChildOrder(parent.children)[parent.i]))]
         ELSE [parent EXCEPT !.pc = "startFailed"]
  /\ UNCHANGED supervisor

\* startChildComponents resumes from await component.start(): its next
\* iteration over the live array, or its return.
startChildComponentsResumes ==
  /\ ~exited
  /\ parent.pc = "childStarted"
  /\ parent' = startChildComponents(parent, parent.i + 1)
  /\ UNCHANGED supervisor

\* The parent's start() resumes from await this.startChildComponents(): it
\* pushes parent.started and returns.
parentStartResumes ==
  /\ ~exited
  /\ parent.pc = "childrenStarted"
  /\ parent' = [parent EXCEPT !.pc = "startEnd",
                              !.events = Append(@, Ev("parent.started", "-"))]
  /\ UNCHANGED supervisor

\* A child's close() resumes from its delay: it pushes its closed event and
\* returns; closeChildComponents resumes in a later step.
childCloseResumes(ok) ==
  /\ ~exited
  /\ parent.pc = "childClose"
  /\ parent' =
       IF ok
         THEN [parent EXCEPT !.pc = "childClosed",
                             !.events =
                 Append(@, Ev("child.closed", parent.snapshot[parent.i]))]
         ELSE [parent EXCEPT !.pc = "closeFailed"]
  /\ UNCHANGED supervisor

\* closeChildComponents resumes from await component.close(): its next
\* iteration over its copy, or its return.
closeChildComponentsResumes ==
  /\ ~exited
  /\ parent.pc = "childClosed"
  /\ parent' = closeChildComponents(parent, parent.i + 1)
  /\ UNCHANGED supervisor

\* The parent's close() resumes from await this.closeChildComponents(): it
\* pushes parent.closed and returns.
parentCloseResumes ==
  /\ ~exited
  /\ parent.pc = "childrenClosed"
  /\ parent' = [parent EXCEPT !.pc = "closeEnd",
                              !.events = Append(@, Ev("parent.closed", "-"))]
  /\ UNCHANGED supervisor

\* The supervisor, started once and closed with close(false), with the parent
\* among its components.
NextParent ==
  \/ \E c \in {"Parent", "Plain"} : register(c) /\ UNCHANGED parent
  \/ registerChildComponent("childThree")
  \/ start(1) /\ parentCalled(parent)
  \/ \E ok \in BOOLEAN :
       /\ starts[1].pc = "awaitStart"
       /\ settled(startOrder(components)[starts[1].i], "start", ok)
       /\ startComponentResumes(1, ok)
       /\ parentCalled(IF startOrder(components)[starts[1].i] = "Parent"
                         THEN returned(parent) ELSE parent)
  \/ startResumes(1) /\ parentCalled(parent)
  \/ \E ok \in BOOLEAN : childStartResumes(ok)
  \/ startChildComponentsResumes
  \/ parentStartResumes
  \/ healthDelayElapsed(1) /\ UNCHANGED parent
  \/ healthCheckResumes(1, "undefined") /\ UNCHANGED parent
  \/ healthLoopTest(1) /\ UNCHANGED parent
  \/ \E k \in CloseIds : close(k, FALSE) /\ UNCHANGED parent
  \/ \E k \in CloseIds : closeHealthStopped(k) /\ parentCalled(parent)
  \/ \E k \in CloseIds, ok \in BOOLEAN :
       /\ closes[k].pc = "awaitClose"
       /\ settled(closeOrder(components)[closes[k].i], "close", ok)
       /\ closeComponentResumes(k, ok)
       /\ parentCalled(IF closeOrder(components)[closes[k].i] = "Parent"
                         THEN returned(parent) ELSE parent)
  \/ \E k \in CloseIds : closeResumes(k) /\ parentCalled(parent)
  \/ \E ok \in BOOLEAN : childCloseResumes(ok)
  \/ closeChildComponentsResumes
  \/ parentCloseResumes

SpecParent == Init /\ [][NextParent]_vars

\* ------------------------------------------------------------ properties
\* What a task did to the components: its log without the status events.
body(t) == SelectSeq(log[t], LAMBDA e : e.p > 0)

onlyOneStart == \A s \in StartIds : s > 1 => starts[s].pc = "idle"

\* C1: each start() call starts the components one at a time in registration
\* order: its log is call c1, return, componentStarted c1, call c2, ... (the
\* call of the next component comes after the return of the previous one and
\* after its componentStarted), a failed start being the last entry; and once
\* the call is through, every component was started.
C1_StartsInRegistrationOrder ==
  \A s \in StartIds :
    LET b == body(StartTask(s)) IN
    /\ \A j \in 1..Len(b) :
         LET q == ((j - 1) \div 3) + 1
             m == (j - 1) % 3
         IN /\ q <= Len(components)
            /\ m = 0 => b[j] = Call("start", q, components[q])
            /\ m = 1 => /\ b[j] \in {Ret("start", q, components[q], "ok"),
                                     Ret("start", q, components[q], "fail")}
                        /\ b[j].r = "fail" => j = Len(b)
            /\ m = 2 => b[j] = EmitC("componentStarted", q, components[q])
    /\ starts[s].pc = "done" => Len(b) = 3 * Len(components)

C1_Witness ==
  \E s \in StartIds :
    /\ starts[s].pc = "done"
    /\ Len(components) = 2
    /\ components[1] # components[2]
    /\ Len(body(StartTask(s))) = 6

\* C2: each close() call that runs the shutdown closes the components one at a
\* time in the reverse of the registration order: its log is componentClosing
\* cn, call cn, return, componentClosed cn, componentClosing cn-1, ...; and once
\* the call is through, every component was closed.  This holds in every
\* behaviour, with or without recoveries by the health loop.
C2_ClosesInReverseOrder ==
  \A k \in CloseIds :
    LET b == body(CloseTask(k))
        n == Len(components)
    IN /\ \A j \in 1..Len(b) :
            LET q == ((j - 1) \div 4) + 1
                m == (j - 1) % 4
            IN /\ q <= n
               /\ m = 0 => b[j] = EmitC("componentClosing", q, components[n - q + 1])
               /\ m = 1 => b[j] = Call("close", q, components[n - q + 1])
               /\ m = 2 => /\ b[j] \in {Ret("close", q, components[n - q + 1], "ok"),
                                        Ret("close", q, components[n - q + 1], "fail")}
                           /\ b[j].r = "fail" => j = Len(b)
               /\ m = 3 => b[j] = EmitC("componentClosed", q, components[n - q + 1])
       /\ closes[k].pc = "done" => Len(b) = 4 * n

C2_Witness ==
  \E k \in CloseIds :
    /\ closes[k].pc = "done"
    /\ Len(components) = 2
    /\ components[1] # components[2]
    /\ Len(body(CloseTask(k))) = 8

\* C3: when start() was called once, then from the first componentClosing on
\* the health loop has ended: no delay, checkHealth or recovery is in flight,
\* and the completion signal is resolved.
C3_HealthLoopEndedBeforeFirstClose ==
  (onlyOneStart /\ \E k \in CloseIds : body(CloseTask(k)) # <<>>) =>
    /\ healthResolved
    /\ \A h \in StartIds : health[h].pc \in {"none", "done"}

C3_Witness ==
  /\ onlyOneStart
  /\ health[1].pc = "done"
  /\ Len(components) = 2
  /\ \E k \in CloseIds : closes[k].pc = "awaitClose" /\ closes[k].i = 2

\* C4: a close() call made while the status is closing starts no shutdown
\* sequence of its own: it waits, calls no component and emits nothing, and its
\* promise resolves only in the step that makes the status closed; the promise
\* of the call that runs the sequence resolves only then too, after it called
\* close() once on each component.
C4_SecondCloseIsCoalesced ==
  [][\A k \in CloseIds :
       /\ (closes[k].pc = "idle" /\ closes'[k].pc # "idle" /\ status = "closing") =>
            /\ closes'[k].pc = "coalesced"
            /\ log' = log
            /\ status' = status
       /\ closes[k].pc = "coalesced" =>
            /\ log'[CloseTask(k)] = <<>>
            /\ closes'[k].pc \in {"coalesced", "resolved"}
            /\ closes'[k].pc = "resolved" => (status # "closed" /\ status' = "closed")
       /\ (closes[k].pc # "done" /\ closes'[k].pc = "done") =>
            /\ status' = "closed"
            /\ \A q \in 1..Len(components) :
                 Cardinality({j \in 1..Len(log'[CloseTask(k)]) :
                                log'[CloseTask(k)][j] =
                                  Call("close", q, components[Len(components) - q + 1])}) = 1
    ]_vars

C4_Witness ==
  /\ closes[1].pc = "done"
  /\ closes[2].pc = "resolved"
  /\ Len(components) = 2
  /\ status = "closed"

\* C5: the status never moves to an earlier value of
\* pending, starting, running, closing, closed.
rank(st) == CHOOSE r \in 1..Len(statuses) : statuses[r] = st

C5_StatusOnlyMovesForward == [][rank(status') >= rank(status)]_vars

\* C6: register() in a status other than pending fails and leaves the
\* registered sequence as it is; once start() was called the status is not
\* pending, so from then on no step changes the sequence.
C6_RegisterOnlyWhilePending ==
  [][/\ status # "pending" => components' = components
     /\ (status # "pending" /\ registerResult' # registerResult) =>
          registerResult' = "error"
     /\ (\E s \in StartIds : starts'[s].pc # "idle") => status' # "pending"
    ]_vars

C6_Witness ==
  /\ registerResult = "error"
  /\ status = "starting"
  /\ Len(components) = 2
  /\ \E s \in StartIds : starts[s].pc = "failed"

\* C7: close() called while the status is pending, starting or closed is
\* rejected and changes nothing: not the status, no log (no event, no component
\* call), not the SIGTERM listener; and a rejected call never does anything.
C7_CloseRejectedOutsideRunning ==
  [][\A k \in CloseIds :
       /\ (closes[k].pc = "idle" /\ closes'[k].pc # "idle"
             /\ status \in {"pending", "starting", "closed"}) =>
            /\ closes'[k].pc = "rejected"
            /\ status' = status
            /\ log' = log
            /\ sigterm' = sigterm
            /\ exited' = exited
       /\ closes[k].pc = "rejected" =>
            /\ closes'[k] = closes[k]
            /\ log'[CloseTask(k)] = <<>>
    ]_vars

C7_Witness ==
  /\ closes[1].pc = "done"
  /\ closes[2].pc = "rejected"
  /\ status = "closed"

\* C8: the operation the health loop invokes to recover a component is restart()
\* when the component has one, and start() only when it has none.
C8_RecoveryPrefersRestart ==
  \A h \in StartIds :
    \A j \in 1..Len(log[HealthTask(h)]) :
      LET e == log[HealthTask(h)][j] IN
      (e.k = "call" /\ e.n \in {"start", "restart"}) =>
        e.n = (IF hasRestart(e.c) THEN "restart" ELSE "start")

\* C9: in a health-check cycle, a check that yields false is followed at once by
\* componentRestarting, one recovery call and, when that call returns,
\* componentRestarted; each of the two events occurs only so, at most once per
\* component and cycle; a check that yields true is followed by neither.
C9_OneRecoveryPerFailedCheck ==
  \A h \in StartIds :
    LET L == log[HealthTask(h)] IN
    /\ \A j \in 1..Len(L) :
         /\ L[j] = Ret("checkHealth", L[j].p, L[j].c, "false") =>
              /\ Len(L) >= j + 2
              /\ L[j + 1] = EmitC("componentRestarting", L[j].p, L[j].c)
              /\ L[j + 2].k = "call" /\ L[j + 2].n \in {"start", "restart"}
              /\ L[j + 2].p = L[j].p /\ L[j + 2].c = L[j].c
              /\ Len(L) >= j + 3 =>
                   /\ L[j + 3].k = "ret" /\ L[j + 3].n = L[j + 2].n
                   /\ L[j + 3].p = L[j].p
                   /\ L[j + 3].r = "ok" =>
                        /\ Len(L) >= j + 4
                        /\ L[j + 4] = EmitC("componentRestarted", L[j].p, L[j].c)
                   /\ L[j + 3].r # "ok" => Len(L) = j + 3
         /\ (L[j].k = "emit" /\ L[j].n = "componentRestarting") =>
              /\ j > 1
              /\ L[j - 1] = Ret("checkHealth", L[j].p, L[j].c, "false")
         /\ (L[j].k = "emit" /\ L[j].n = "componentRestarted") =>
              /\ j > 4
              /\ L[j - 4] = Ret("checkHealth", L[j].p, L[j].c, "false")
         /\ L[j] = Ret("checkHealth", L[j].p, L[j].c, "true") =>
              \A m \in 1..Len(L) :
                (L[m].k = "emit" /\ L[m].p = L[j].p) => L[m].n = "healthChecked"
    /\ \A q \in 1..Len(components) :
         /\ Cardinality({j \in 1..Len(L) : L[j].k = "emit" /\ L[j].p = q
                                             /\ L[j].n = "componentRestarting"}) <= 1
         /\ Cardinality({j \in 1..Len(L) : L[j].k = "emit" /\ L[j].p = q
                                             /\ L[j].n = "componentRestarted"}) <= 1
         /\ Cardinality({j \in 1..Len(L) : L[j].k = "call" /\ L[j].p = q
                                             /\ L[j].n \in {"start", "restart"}}) <= 1

C9_Witness ==
  \E h \in StartIds :
    LET L == log[HealthTask(h)] IN
    /\ health[h].pc = "checked"
    /\ Len(components) = 2
    /\ \E j \in 1..Len(L) : L[j] = EmitC("componentRestarted", 1, components[1])
    /\ \E j \in 1..Len(L) : L[j] = Ret("checkHealth", 2, components[2], "true")

\* C10: the health loop never recovers a component without checkHealth: it
\* makes no call on it and emits no componentRestarting or componentRestarted
\* for it.
C10_NoCheckHealthMeansHealthy ==
  \A h \in StartIds :
    \A j \in 1..Len(log[HealthTask(h)]) :
      LET e == log[HealthTask(h)][j] IN
      e.p > 0 => hasCheckHealth(e.c)

C10_Witness ==
  \E h \in StartIds :
    LET L == log[HealthTask(h)] IN
    /\ health[h].pc = "checked"
    /\ Len(components) = 2
    /\ ~hasCheckHealth(components[1])
    /\ \E j \in 1..Len(L) : L[j] = EmitC("componentRestarted", 2, components[2])

\* C11: when the start() of the k-th component failed, the start() call has
\* failed with it at that component (a failed return always fails the call): its
\* log ends with that failed return, so no
\* later component was called; no close() call has run a shutdown, so no
\* component was closed; the status is starting; the SIGTERM listener is not
\* installed and no health loop was spawned.
C11_FailedStartStopsStartup ==
  \A s \in StartIds :
    /\ \A j \in 1..Len(log[StartTask(s)]) :
         log[StartTask(s)][j].r = "fail" => starts[s].pc = "failed"
    /\ starts[s].pc = "failed" =>
      LET L == log[StartTask(s)]
          k == starts[s].i
      IN /\ L[Len(L)] = Ret("start", k, components[k], "fail")
         /\ \A j \in 1..Len(L) : L[j].p <= k
         /\ \A j \in 1..Len(L) : (L[j].k = "emit" /\ L[j].p > 0) => L[j].p < k
         /\ status = "starting"
         /\ ~sigterm
         /\ health[s].pc = "none"
         /\ \A c \in CloseIds : /\ closes[c].pc \in {"idle", "rejected"}
                                 /\ log[CloseTask(c)] = <<>>

C11_Witness ==
  /\ starts[1].pc = "failed"
  /\ starts[1].i = 2
  /\ Len(components) = 2
  /\ closes[1].pc = "rejected"

\* C12: when the close() of a component failed, the close() call that ran the
\* shutdown has failed with it (a failed return always fails the call): its log
\* ends with that failed return, so the
\* components after it in the reverse order were not called and no
\* componentClosed was emitted for it; no other close() call has run a shutdown;
\* the status is closing.
C12_FailedCloseStopsShutdown ==
  \A c \in CloseIds :
    /\ \A j \in 1..Len(log[CloseTask(c)]) :
         log[CloseTask(c)][j].r = "fail" => closes[c].pc = "failed"
    /\ closes[c].pc = "failed" =>
      LET L == log[CloseTask(c)]
          k == closes[c].i
      IN /\ L[Len(L)] = Ret("close", k, closeOrder(components)[k], "fail")
         /\ \A j \in 1..Len(L) : L[j].p <= k
         /\ \A j \in 1..Len(L) : L[j].n = "componentClosed" => L[j].p < k
         /\ status = "closing"
         /\ \A d \in CloseIds \ {c} : /\ closes[d].pc \in {"idle", "rejected", "coalesced"}
                                       /\ log[CloseTask(d)] = <<>>

C12_Witness ==
  /\ closes[1].pc = "failed"
  /\ closes[1].i = 1
  /\ Len(components) = 2
  /\ closes[2].pc = "coalesced"

\* C13: a parent that delegates to startChildComponents/closeChildComponents
\* yields the nested order.  When startChildComponents returns, the events
\* since parent.starting are: the children registered by then, in their
\* registration order, each starting and started before the next; the parent's
\* start() then ends with parent.started directly after them (a child
\* registered between the two is not started); and componentStarted of the
\* parent comes directly after parent.started.  When the
\* parent's close() ends, the events since its parent.closing are: the children
\* registered when close() was called, in the reverse of their registration
\* order, each closing and closed before the next, then parent.closed; and
\* componentClosed of the parent comes directly after parent.closed.
lastIndexOf(E, e) ==
  LET js == {j \in 1..Len(E) : E[j].e = e}
  IN IF js = {} THEN 0 ELSE CHOOSE j \in js : \A m \in js : m <= j

since(E, e) == SubSeq(E, lastIndexOf(E, e), Len(E))

pairs(names, a, b) ==
  [j \in 1..(2 * Len(names)) |->
     IF j % 2 = 1 THEN Ev(a, names[(j + 1) \div 2]) ELSE Ev(b, names[j \div 2])]

nestedStart(cs) ==
  <<Ev("parent.starting", "-")>> \o pairs(cs, "child.starting", "child.started")
    \o <<Ev("parent.started", "-")>>

nestedClose(cs) ==
  <<Ev("parent.closing", "-")>>
    \o pairs(toReversed(cs), "child.closing", "child.closed")
    \o <<Ev("parent.closed", "-")>>

ends(E, F, e) == Len(F) > Len(E) /\ F[Len(F)] = Ev(e, "-")

C13_ParentNestsChildren ==
  /\ [](\A j \in 1..Len(parent.events) :
          /\ parent.events[j] = Ev("componentStarted", "Parent") =>
               (j > 1 /\ parent.events[j - 1] = Ev("parent.started", "-"))
          /\ parent.events[j] = Ev("componentClosed", "Parent") =>
               (j > 1 /\ parent.events[j - 1] = Ev("parent.closed", "-")))
  /\ [][/\ (parent.pc = "childStarted" /\ parent'.pc = "childrenStarted") =>
            since(parent'.events, "parent.starting") =
              <<Ev("parent.starting", "-")>>
                \o pairs(startChildOrder(parent'.children), "child.starting", "child.started")
        /\ ends(parent.events, parent'.events, "parent.started") =>
            /\ parent.pc = "childrenStarted"
            /\ \E n \in 0..Len(parent'.children) :
                 since(parent'.events, "parent.starting") =
                   nestedStart(SubSeq(parent'.children, 1, n))
        /\ ends(parent.events, parent'.events, "parent.closed") =>
            since(parent'.events, "parent.closing") =
              nestedClose(SubSeq(parent'.children, 1, Len(parent'.snapshot)))
       ]_vars

C13_Witness ==
  /\ components = <<"Parent">>
  /\ parent.events =
       nestedStart(<<"childOne", "childTwo">>) \o <<Ev("componentStarted", "Parent")>>
         \o nestedClose(<<"childOne", "childTwo">>)
         \o <<Ev("componentClosed", "Parent")>>

\* C14: when no component operation fails, a shutdown that has begun (the
\* status is closing) leads to the health loop having seen the status and
\* resolved the completion signal, every component closed, and the status
\* closed.
C14_ShutdownCompletes ==
  (status = "closing") ~>
    (/\ status = "closed"
     /\ healthResolved
     /\ health[1].pc = "done"
     /\ \E k \in CloseIds :
          /\ closes[k].pc = "done"
          /\ Len(body(CloseTask(k))) = 4 * Len(components))

C14_Witness ==
  /\ status = "closed"
  /\ Len(components) = 2
  /\ log[HealthTask(1)] = <<Entry("resolve", "healthCheckPromise", 0, "-", "ok")>>
  /\ \E k \in CloseIds : closes[k].pc = "done" /\ Len(body(CloseTask(k))) = 8

\* C15: a checkHealth or recovery call that rejects ends the attempts of its
\* cycle only: the health loop is still running afterwards (in its delay, in a
\* check or recovery, or at its while test), so that the component is checked
\* again in the next cycle.
C15_LoopSurvivesRejection ==
  \A h \in StartIds :
    LET L == log[HealthTask(h)] IN
    (L # <<>> /\ L[Len(L)].k = "ret" /\ L[Len(L)].r \in {"reject", "fail"}) =>
      health[h].pc \in {"delay", "awaitCheck", "awaitRestart", "restarted", "checked"}

\* C16: in a start() followed by a close() that both succeed, each of the events
\* starting, running, closing, closed is emitted once.  starting is the first
\* and running the last thing the start() call emits, with every
\* componentStarted between them; closing is emitted only after running, and is
\* the first thing the close() call emits, closed the last, with every
\* componentClosing and componentClosed between them.
emitted(v) ==
  UNION {{<<t, j>> : j \in {i \in 1..Len(log[t]) : log[t][i] = Emit(v)}} :
           t \in Tasks}

C16_StatusEventsOnceInOrder ==
  /\ \A v \in {"starting", "running", "closing", "closed"} :
       Cardinality(emitted(v)) <= 1
  /\ LET S == log[StartTask(1)] IN
     starts[1].pc = "done" =>
       /\ S[1] = Emit("starting")
       /\ S[Len(S)] = Emit("running")
       /\ \A j \in 2..(Len(S) - 1) : S[j].p > 0
       /\ Cardinality({j \in 1..Len(S) : S[j].n = "componentStarted"})
            = Len(components)
  /\ \A k \in CloseIds :
       LET C == log[CloseTask(k)] IN
       /\ C # <<>> => (C[1] = Emit("closing") /\ emitted("running") # {})
       /\ closes[k].pc = "done" =>
            LET n == IF closes[k].shouldExit THEN Len(C) - 1 ELSE Len(C) IN
            /\ C[n] = Emit("closed")
            /\ \A j \in 2..(n - 1) : C[j].p > 0
            /\ Cardinality({j \in 1..n : C[j].n = "componentClosing"})
                 = Len(components)
            /\ Cardinality({j \in 1..n : C[j].n = "componentClosed"})
                 = Len(components)
            /\ \A v \in {"starting", "running", "closing", "closed"} :
                 Cardinality(emitted(v)) = 1

C16_Witness ==
  /\ status = "closed"
  /\ ~exited
  /\ closes[1].pc = "done"
  /\ closes[2].pc = "idle"
  /\ Len(components) = 2
  /\ Len(log[StartTask(1)]) = 8
  /\ Len(log[CloseTask(1)]) = 10

\* C17: over all close() calls together, close() is invoked at most once on
\* each registered component (each position of the registration order).
C17_EachComponentClosedAtMostOnce ==
  \A p \in 1..Len(components) :
    Cardinality(
      UNION {{<<k, j>> : j \in {i \in 1..Len(log[CloseTask(k)]) :
                                  log[CloseTask(k)][i] =
                                    Call("close", p, closeOrder(components)[p])}} :
               k \in CloseIds}) <= 1

\* C18: in every state (the tasks being at their awaits) this.close is a
\* listener of SIGTERM exactly when the status is running, so it is added in the
\* step that sets running and removed in the step that sets closing; and at
\* most one close() call, whether made by the caller or by SIGTERM, ever runs a
\* shutdown sequence.
C18_ListenerIffRunning ==
  /\ sigterm <=> status = "running"
  /\ Cardinality({k \in CloseIds :
                    closes[k].pc \in {"awaitHealth", "awaitClose", "componentClosed",
                                       "done", "failed"}})
       <= 1

C18_Witness ==
  /\ status = "closing"
  /\ ~sigterm
  /\ closes[1].pc = "awaitHealth"
  /\ closes[1].shouldExit
  /\ closes[2].pc = "coalesced"
  /\ health[1].pc = "delay"

\* C19: once the status is closing or closed it stays so, and the health loop
\* begins no further cycle: its cycle number no longer changes, its while test
\* ends it, and an ended loop does nothing more; so the only checkHealth and
\* recovery calls still issued are those of the cycle the loop was in, or was
\* waiting to begin, when the status became closing.  When the status is closed
\* the loop has ended.
C19_NoHealthCheckAfterLastCycle ==
  /\ [](status = "closed" => \A h \in StartIds : health[h].pc \in {"none", "done"})
  /\ [][(status = "closing" \/ status = "closed") =>
          (/\ status' \in {"closing", "closed"}
           /\ \A h \in StartIds :
                /\ health'[h].cycle = health[h].cycle
                /\ health[h].pc = "checked" => health'[h].pc \in {"checked", "done"}
                /\ health[h].pc \in {"done", "dead"} =>
                     /\ health'[h] = health[h]
                     /\ log'[HealthTask(h)] = log[HealthTask(h)])
       ]_vars

C19_Witness ==
  /\ status = "closing"
  /\ health[1].pc = "done"
  /\ health[1].cycle = 1
  /\ healthResolved
  /\ Len(components) = 2
  /\ closes[1].pc = "awaitHealth"

\* C20: a health loop that is in its delay leaves it only by running a check
\* cycle, whatever the status has become meanwhile, and in that cycle a check
\* that yields false is followed by componentRestarting and a recovery call also
\* when the status is closing.  The witness is the state the claim describes:
\* close() was called during the delay (the cycle is one that can begin only
\* when the status is no longer running), and the cycle has run with
\* componentRestarting and componentRestarted emitted, the status being closing
\* and the close() call still waiting.
C20_DelayedLoopStillRunsCycle ==
  [][\A h \in StartIds :
       /\ health[h].pc = "delay" =>
            health'[h].pc \in {"delay", "awaitCheck", "checked"}
       /\ (/\ status = "closing"
           /\ health[h].pc = "awaitCheck"
           /\ health'[h] # health[h]
           /\ log'[HealthTask(h)][Len(log'[HealthTask(h)])].k # "ret"
           /\ \E j \in 1..Len(log'[HealthTask(h)]) :
                log'[HealthTask(h)][j] =
                  Ret("checkHealth", health[h].i, components[health[h].i], "false")) =>
            /\ health'[h].pc = "awaitRestart"
            /\ status' = "closing"
            /\ \E j \in 1..Len(log'[HealthTask(h)]) :
                 log'[HealthTask(h)][j] =
                   EmitC("componentRestarting", health[h].i, components[health[h].i])
    ]_vars

C20_Witness ==
  /\ status = "closing"
  /\ health[1].pc = "checked"
  /\ health[1].cycle = MaxCycles + 1
  /\ closes[1].pc = "awaitHealth"
  /\ \E j \in 1..Len(log[HealthTask(1)]) :
       log[HealthTask(1)][j].n = "componentRestarting"
  /\ \E j \in 1..Len(log[HealthTask(1)]) :
       log[HealthTask(1)][j].n = "componentRestarted"

\* C21: the completion signal is resolved only by the health loop, in the step
\* in which the loop, at its while test after a cycle that ended with
\* healthChecked, reads a status other than running and ends; it is resolved at
\* most once; while it is resolved the status is closing or closed; and a loop
\* that has resolved it takes no further step.
C21_ResolvedOnceByLoopAfterRunning ==
  /\ [](healthResolved =>
          /\ status \in {"closing", "closed"}
          /\ \E h \in StartIds :
               /\ health[h].pc = "done"
               /\ log[HealthTask(h)] =
                    <<Entry("resolve", "healthCheckPromise", 0, "-", "ok")>>)
  /\ [][/\ healthResolved => healthResolved'
        /\ (~healthResolved /\ healthResolved') =>
             \E h \in StartIds :
               /\ health[h].pc = "checked"
               /\ log[HealthTask(h)][Len(log[HealthTask(h)])] = Emit("healthChecked")
               /\ status # "running"
               /\ status' = status
               /\ health'[h].pc = "done"
        /\ \A h \in StartIds :
             health[h].pc = "done" =>
               /\ health'[h] = health[h]
               /\ log'[HealthTask(h)] = log[HealthTask(h)]
       ]_vars

C21_Witness ==
  /\ healthResolved
  /\ status = "closing"
  /\ health[1].pc = "done"
  /\ health[1].cycle = MaxCycles + 1
  /\ closes[1].pc = "awaitClose"
  /\ closes[1].i = 1

\* C22: in a health-check cycle every call (the delay, a checkHealth, a
\* recovery) is followed directly by its own return, so only the call the loop
\* is waiting for is in flight; the components are probed in registration
\* order, each at most once per cycle, the recovery of a component before the
\* probe of the next; and a delay begins only at the spawn of the loop or after
\* the while test that follows a completed cycle.
C22_ChecksSequentialInOrder ==
  /\ [](\A h \in StartIds :
          LET L == log[HealthTask(h)] IN
          health[h].pc \notin {"none", "done"} =>
            /\ L # <<>> /\ L[1] = Call("delay", 0, "-")
            /\ \A j \in 1..(Len(L) - 1) :
                 /\ L[j].k = "call" =>
                      (L[j + 1].k = "ret" /\ L[j + 1].n = L[j].n /\ L[j + 1].p = L[j].p)
                 /\ L[j + 1].p > 0 => L[j].p <= L[j + 1].p
            /\ \A j \in 1..Len(L) :
                 L[j].p > 0 => (L[j].p <= Len(components) /\ L[j].c = components[L[j].p])
            /\ \A q \in 1..Len(components) :
                 Cardinality({j \in 1..Len(L) : L[j].k = "call" /\ L[j].p = q
                                                   /\ L[j].n = "checkHealth"}) <= 1
            /\ health[h].pc = "delay" => L = <<Call("delay", 0, "-")>>
            /\ health[h].pc = "awaitRestart" =>
                 L[Len(L)] = Call(recoveryOp(components[health[h].i]), health[h].i,
                                  components[health[h].i])
            /\ (health[h].pc = "awaitCheck" /\ hasCheckHealth(components[health[h].i])) =>
                 L[Len(L)] = Call("checkHealth", health[h].i, components[health[h].i])
            /\ health[h].pc = "restarted" =>
                 L[Len(L)] = EmitC("componentRestarted", health[h].i, components[health[h].i])
            /\ health[h].pc \in {"checked", "dead"} => L[Len(L)].k # "call")
  /\ [][\A h \in StartIds :
          (health[h].pc # "delay" /\ health'[h].pc = "delay") =>
            health[h].pc \in {"none", "checked"}
       ]_vars

C22_Witness ==
  /\ health[1].pc = "awaitCheck"
  /\ health[1].i = 2
  /\ Len(components) = 2
  /\ hasCheckHealth(components[2])
  /\ \E j \in 1..Len(log[HealthTask(1)]) :
       log[HealthTask(1)][j] = EmitC("componentRestarted", 1, components[1])

\* ------------------------------------------------------------------- C23
\* C23: every health-check cycle that completes emits exactly one healthChecked
\* event, after the check of the last component and after any recovery of that
\* cycle; a cycle that a rejection ended emits none.  A cycle is complete
\* exactly when its last log entry is the healthChecked event: before it every
\* component with a checkHealth has returned from it, every recovery that was
\* begun has returned, and nothing follows it; the loop goes on to its while
\* test only from there.
C23_HealthCheckedOncePerCompletedCycle ==
  /\ [](\A h \in StartIds :
          LET L == log[HealthTask(h)]
              at == {j \in 1..Len(L) : L[j] = Emit("healthChecked")}
          IN /\ Cardinality(at) <= 1
             /\ health[h].pc = "checked" <=> at # {}
             /\ health[h].pc = "dead" => at = {}
             /\ at # {} =>
                  /\ at = {Len(L)}
                  /\ health[h].i = Len(components) + 1
                  /\ \A q \in 1..Len(components) :
                       hasCheckHealth(components[q]) =>
                         \E j \in 1..Len(L) :
                           /\ L[j].k = "ret" /\ L[j].n = "checkHealth" /\ L[j].p = q
                           /\ L[j].r \in {"true", "false"}
                  /\ \A j \in 1..Len(L) :
                       (L[j].k = "call" /\ L[j].p > 0) =>
                         (j < Len(L) /\ L[j + 1] = Ret(L[j].n, L[j].p, L[j].c, L[j + 1].r)
                                     /\ L[j + 1].r # "fail" /\ L[j + 1].r # "reject"))
  /\ [][\A h \in StartIds :
          /\ (health[h].pc = "checked" /\ health'[h].pc # "checked") =>
               health'[h].pc \in {"delay", "done"}
          /\ (health[h].pc # "done" /\ health'[h].pc = "done") => health[h].pc = "checked"
          /\ health[h].pc = "dead" => health'[h] = health[h] /\ log'[HealthTask(h)] = log[HealthTask(h)]
       ]_vars

\* A cycle over two components is complete: the first was recovered, the second
\* was healthy.
C23_Witness ==
  /\ health[1].pc = "checked"
  /\ Len(components) = 2
  /\ \E j \in 1..Len(log[HealthTask(1)]) :
       log[HealthTask(1)][j] = EmitC("componentRestarted", 1, components[1])
  /\ \E j \in 1..Len(log[HealthTask(1)]) :
       log[HealthTask(1)][j] = Ret("checkHealth", 2, components[2], "true")

\* ------------------------------------------------------------------- C24
\* C24: the health loop is launched only after the start() of every registered
\* component has completed successfully, so no checkHealth or recovery call
\* overlaps the startup sequence; start() sets the status to running and
\* resolves in the step that launches the loop, with the loop waiting in its
\* first delay and no cycle run; a checkHealth or recovery call is issued only
\* after that delay has returned and with the status no longer pending or
\* starting.
C24_HealthLoopLaunchedAfterStartup ==
  /\ [](\A s \in StartIds :
          LET L == log[HealthTask(s)] IN
          /\ health[s].pc # "none" =>
               /\ starts[s].pc = "done"
               /\ status \in {"running", "closing", "closed"}
               /\ \A q \in 1..Len(components) :
                    \E j \in 1..Len(log[StartTask(s)]) :
                      log[StartTask(s)][j] = Ret("start", q, components[q], "ok")
          /\ starts[s].pc \in {"awaitStart", "started", "failed"} =>
               (health[s].pc = "none" /\ L = <<>>)
          /\ \A j \in 1..Len(L) :
               (L[j].k = "call" /\ L[j].p > 0) =>
                 /\ j > 2
                 /\ L[1] = Call("delay", 0, "-")
                 /\ L[2] = Ret("delay", 0, "-", "ok"))
  /\ [][\A s \in StartIds :
          (starts[s].pc # "done" /\ starts'[s].pc = "done") =>
            /\ status' = "running"
            /\ health[s].pc = "none"
            /\ health'[s] = [pc |-> "delay", i |-> 0, cycle |-> 1]
            /\ log'[HealthTask(s)] = <<Call("delay", 0, "-")>>
       ]_vars

\* start() has resolved over two components, the first delay is over and the
\* first checkHealth is in flight while the status is running.
C24_Witness ==
  /\ starts[1].pc = "done"
  /\ status = "running"
  /\ Len(components) = 2
  /\ health[1].pc = "awaitCheck"
  /\ health[1].i = 1
  /\ health[1].cycle = 1
  /\ log[HealthTask(1)] = <<Call("delay", 0, "-"), Ret("delay", 0, "-", "ok"),
                            Call("checkHealth", 1, components[1])>>

\* ------------------------------------------------------------------- C25
exitEntry == Entry("exit", "exit", 0, "-", "-")
hasExit(k) == \E j \in 1..Len(log[CloseTask(k)]) : log[CloseTask(k)][j] = exitEntry

\* C25: the process exit is requested only by the close() call that ran the
\* shutdown sequence, only when its shouldExit is true, and only after every
\* component has been closed and the status is closed; a call that ran the
\* sequence with shouldExit false requests no exit, and a call that was
\* coalesced or rejected requests none whatever its argument was.
C25_ExitOnlyByRunningCloseWhenAsked ==
  /\ [](/\ exited =>
             /\ status = "closed"
             /\ \E k \in CloseIds :
                  LET L == log[CloseTask(k)] IN
                  /\ closes[k].pc = "done"
                  /\ closes[k].shouldExit
                  /\ Len(L) >= 2
                  /\ L[Len(L)] = exitEntry
                  /\ L[Len(L) - 1] = Emit("closed")
                  /\ \A q \in 1..Len(components) :
                       \E j \in 1..(Len(L) - 2) :
                         L[j] = Ret("close", q, closeOrder(components)[q], "ok")
        /\ \A k \in CloseIds :
             /\ hasExit(k) => (closes[k].pc = "done" /\ closes[k].shouldExit /\ exited)
             /\ (closes[k].pc = "done" /\ ~closes[k].shouldExit) => ~exited
             /\ closes[k].pc \in {"coalesced", "resolved", "rejected"} =>
                  log[CloseTask(k)] = <<>>)
  /\ [][/\ (~exited /\ exited') =>
             \E k \in CloseIds :
               /\ \/ closes[k].pc = "componentClosed" /\ closes[k].i = Len(components)
                  \/ closes[k].pc = "awaitHealth" /\ healthResolved /\ components = <<>>
               /\ closes[k].shouldExit
               /\ closes'[k].pc = "done"
        /\ \A k \in CloseIds :
             (closes[k].pc = "idle" /\ closes'[k].pc \in {"coalesced", "rejected"}) =>
               (exited' = exited /\ log' = log)
        /\ \A k \in CloseIds :
             (closes[k].pc = "coalesced" /\ closes'[k].pc = "resolved") =>
               \E m \in CloseIds : m # k /\ closes'[m].pc = "done" /\ exited' = closes[m].shouldExit
       ]_vars

\* The call that ran the shutdown of two components requested the exit; the
\* call coalesced with it resolved.
C25_Witness ==
  /\ exited
  /\ Len(components) = 2
  /\ closes[1].pc = "done"
  /\ closes[1].shouldExit
  /\ closes[2].pc = "resolved"

\* ------------------------------------------------------------------- C26
\* C26: every shutdown is preceded by at least one complete health-check cycle,
\* also when close() is called right after start() resolved.  While the loop is
\* still in a delay or a check pass, a close() call that set closing stays at
\* its await with nothing closed; the completion signal is resolved only in a
\* step whose cycle is complete (delay returned, every call of the pass
\* returned, healthChecked emitted); and close() leaves its await only with
\* the signal resolved.
C26_FullCycleBeforeShutdown ==
  /\ [](\A k \in CloseIds :
          /\ (closes[k].pc = "awaitHealth" /\ health[1].pc \notin {"none", "done"}) =>
               (~healthResolved /\ log[CloseTask(k)] = <<Emit("closing")>>)
          /\ (\E j \in 1..Len(log[CloseTask(k)]) : log[CloseTask(k)][j].p > 0) =>
               (healthResolved /\ health[1].pc = "done" /\ health[1].cycle >= 1))
  /\ [][/\ (~healthResolved /\ healthResolved') =>
             \E h \in StartIds :
               LET L == log[HealthTask(h)] IN
               /\ health[h].pc = "checked" /\ health'[h].pc = "done"
               /\ health[h].cycle >= 1
               /\ Len(L) >= 3
               /\ L[1] = Call("delay", 0, "-")
               /\ L[2] = Ret("delay", 0, "-", "ok")
               /\ L[Len(L)] = Emit("healthChecked")
               /\ \A j \in 3..(Len(L) - 1) :
                    L[j].k = "call" => (L[j + 1].k = "ret" /\ L[j + 1].r \in {"true", "false", "ok"})
               /\ \A q \in 1..Len(components) :
                    hasCheckHealth(components[q]) =>
                      \E j \in 3..(Len(L) - 1) : L[j].k = "ret" /\ L[j].n = "checkHealth" /\ L[j].p = q
        /\ \A k \in CloseIds :
             (closes[k].pc = "awaitHealth" /\ closes'[k].pc # "awaitHealth") => healthResolved
       ]_vars

\* close() was called before the while test of the first cycle; the loop
\* finished that cycle and only then the first of two components is closed.
C26_Witness ==
  /\ closes[1].pc = "awaitClose"
  /\ closes[1].i = 1
  /\ Len(components) = 2
  /\ health[1].pc = "done"
  /\ health[1].cycle = 1
  /\ healthResolved

\* ------------------------------------------------------------------- C27
\* C27: when a checkHealth or a recovery call rejects inside the health loop,
\* the loop ends without resolving the completion signal; a close() call made
\* afterwards, or one already waiting, sets the status to closing and stays at
\* its await: no component is closed and the status never becomes closed.
C27_DeadLoopBlocksShutdown ==
  /\ [](\A h \in StartIds :
          health[h].pc = "dead" =>
            /\ ~healthResolved
            /\ ~exited
            /\ status \in {"running", "closing"}
            /\ LET L == log[HealthTask(h)] IN
                 L # <<>> /\ L[Len(L)].k = "ret" /\ L[Len(L)].r \in {"reject", "fail"}
            /\ \A k \in CloseIds :
                 /\ closes[k].pc \in {"idle", "rejected", "awaitHealth", "coalesced"}
                 /\ \A j \in 1..Len(log[CloseTask(k)]) : log[CloseTask(k)][j] = Emit("closing"))
  /\ [][\A h \in StartIds :
          health[h].pc = "dead" =>
            /\ health'[h] = health[h]
            /\ ~healthResolved'
            /\ status' # "closed"
            /\ \A k \in CloseIds :
                 /\ closes[k].pc = "awaitHealth" => closes'[k] = closes[k]
                 /\ (closes[k].pc = "idle" /\ closes'[k].pc # "idle") =>
                      /\ closes'[k].pc = (IF status = "running" THEN "awaitHealth" ELSE "coalesced")
                      /\ status' = "closing"
       ]_vars

\* A recovery rejected in the loop; the first close() call waits for the
\* signal, the second is coalesced with it, and both components are open.
C27_Witness ==
  /\ health[1].pc = "dead"
  /\ Len(components) = 2
  /\ log[HealthTask(1)][Len(log[HealthTask(1)])].r = "fail"
  /\ status = "closing"
  /\ closes[1].pc = "awaitHealth"
  /\ closes[2].pc = "coalesced"
  /\ ~healthResolved

\* ------------------------------------------------------------------- C28
\* C28: when the close() call that runs the shutdown sequence fails on a
\* component, the status stays closing; every close() call coalesced with it
\* stays pending (it neither resolves nor rejects), every close() call made
\* afterwards is coalesced as well, and none of them runs a shutdown sequence
\* of its own.
C28_FailedShutdownStrandsOtherCloses ==
  /\ [](\A k \in CloseIds :
          closes[k].pc = "failed" =>
            /\ status = "closing"
            /\ ~exited
            /\ \A m \in CloseIds \ {k} :
                 /\ closes[m].pc \in {"idle", "rejected", "coalesced"}
                 /\ log[CloseTask(m)] = <<>>)
  /\ [][\A k \in CloseIds :
          closes[k].pc = "failed" =>
            /\ closes'[k] = closes[k]
            /\ status' = "closing"
            /\ \A m \in CloseIds \ {k} :
                 /\ closes[m].pc \in {"coalesced", "rejected"} => closes'[m] = closes[m]
                 /\ (closes[m].pc = "idle" /\ closes'[m].pc # "idle") => closes'[m].pc = "coalesced"
                 /\ log'[CloseTask(m)] = <<>>
       ]_vars

\* The shutdown failed on the second component it closed; the other close()
\* call is coalesced and pending.
C28_Witness ==
  /\ closes[1].pc = "failed"
  /\ closes[1].i = 2
  /\ Len(components) = 2
  /\ closes[2].pc = "coalesced"
  /\ status = "closing"

\* ------------------------------------------------------------------- C29
\* C29: after a failed startup the status stays starting and every close()
\* call is rejected with the illegal-state error, so no component, and in
\* particular none of those that were already started, is closed through the
\* supervisor: no close() call gets past its guard, no health loop exists and
\* no close log holds an entry.
C29_NoCloseAfterFailedStartup ==
  /\ [](starts[1].pc = "failed" =>
          /\ status = "starting"
          /\ health[1].pc = "none"
          /\ ~healthResolved
          /\ ~sigterm
          /\ \A q \in 1..(starts[1].i - 1) :
               \E j \in 1..Len(log[StartTask(1)]) :
                 log[StartTask(1)][j] = EmitC("componentStarted", q, components[q])
          /\ \A k \in CloseIds :
               /\ closes[k].pc \in {"idle", "rejected"}
               /\ log[CloseTask(k)] = <<>>)
  /\ [][starts[1].pc = "failed" =>
          /\ starts'[1] = starts[1]
          /\ status' = "starting"
          /\ \A k \in CloseIds :
               (closes[k].pc = "idle" /\ closes'[k].pc # "idle") =>
                 (closes'[k].pc = "rejected" /\ log' = log)
       ]_vars

\* The startup failed on the second component, the first one is started, and
\* both close() calls made since were rejected.
C29_Witness ==
  /\ starts[1].pc = "failed"
  /\ starts[1].i = 2
  /\ Len(components) = 2
  /\ \E j \in 1..Len(log[StartTask(1)]) :
       log[StartTask(1)][j] = EmitC("componentStarted", 1, components[1])
  /\ closes[1].pc = "rejected"
  /\ closes[2].pc = "rejected"
  /\ status = "starting"

\* ------------------------------------------------------------------- C30
occurrences(s, x) == Cardinality({j \in 1..Len(s) : s[j] = x})

\* C30: registerChildComponent has no state guard and always appends.  The
\* list of children only ever grows at its end; every entry of the parent's
\* start() appends childOne and childTwo once more; startChildComponents
\* starts a child as many times as it is in the list when it returns (a child
\* registered later is not started), closeChildComponents
\* takes its copy of the whole list when it is called and closes a child as
\* many times as it is in that copy, whether or not the child was ever started.
C30_ChildrenAlwaysAppended ==
  /\ [](/\ occurrences(parent.children, "childOne") >= parentStarts(parent)
        /\ occurrences(parent.children, "childTwo") >= parentStarts(parent)
        /\ Len(parent.snapshot) <= Len(parent.children)
        /\ parent.pc \in {"childClose", "childClosed", "childrenClosed", "closeEnd",
                         "closeFailed"} =>
             parent.snapshot = closeChildOrder(SubSeq(parent.children, 1, Len(parent.snapshot))))
  /\ [][/\ Len(parent'.children) >= Len(parent.children)
        /\ SubSeq(parent'.children, 1, Len(parent.children)) = parent.children
        /\ parentStarts(parent') # parentStarts(parent) =>
             /\ parentStarts(parent') = parentStarts(parent) + 1
             /\ parent'.children = parent.children \o <<"childOne", "childTwo">>
        /\ ends(parent.events, parent'.events, "parent.closing") =>
             parent'.snapshot = closeChildOrder(parent'.children)
        /\ (parent.pc = "childStarted" /\ parent'.pc = "childrenStarted") =>
             \A c \in Children :
               occurrences(since(parent'.events, "parent.starting"), Ev("child.starting", c))
                 = occurrences(parent'.children, c)
        /\ ends(parent.events, parent'.events, "parent.closed") =>
             \A c \in Children :
               occurrences(since(parent'.events, "parent.closing"), Ev("child.closing", c))
                 = occurrences(parent'.snapshot, c)
       ]_vars

\* The parent was started twice, so childOne and childTwo are registered
\* twice; childThree was registered after the last startChildComponents and
\* never started; closeChildComponents closed childThree and closed childOne
\* twice.
C30_Witness ==
  /\ components = <<"Parent", "Parent">>
  /\ parent.children = <<"childOne", "childTwo", "childOne", "childTwo", "childThree">>
  /\ parent.pc = "closeEnd"
  /\ occurrences(parent.events, Ev("child.starting", "childThree")) = 0
  /\ occurrences(parent.events, Ev("child.starting", "childOne")) = 3
  /\ occurrences(since(parent.events, "parent.closing"), Ev("child.closed", "childThree")) = 1
  /\ occurrences(since(parent.events, "parent.closing"), Ev("child.closed", "childOne")) = 2

====
